---- MODULE Spec2Model ----
(***************************************************************************)
(* CCDLibrary (src/src/CCDLibrary.cpp): the protocol engine of a CCD-bus  *)
(* node.  One foreground context (the application calling available,      *)
(* read and write) and the interrupt handlers that preempt it and run to   *)
(* completion: byte received (USART1_RX), transmit data register empty     *)
(* (USART1_UDRE), idle timer expiry (TIMER3_COMPA) and the two external    *)
(* edges of the CDP68HC68S1 transceiver (idle, active byte).               *)
(***************************************************************************)
EXTENDS Integers, Sequences, FiniteSets, TLC

\* Capacity of _message, _serialRxBuffer and _serialTxBuffer.
BufferSize == 16

\* Bytes a frame on the bus may carry before the sender stops (more than the
\* capacity, so that the overflow branch of the receive handler is taken).
MaxBurst == 18

\* Frames the bus delivers in one run.
MaxRxFrames == 2

\* Calls of write with a non-empty buffer in one run.
MaxWrites == 1

\* The same three bounds for the runs in which the foreground is preempted
\* inside read and write and in which a second write follows the first: short
\* frames, so that every interleaving of the callbacks with the foreground is
\* covered.
MaxShortBurst == 2
MaxShortFrames == 2
MaxShortWrites == 2

\* Frames the bus delivers in a run in which the application also writes.
MaxBusFrames == 1

\* The longest frame the application stages in those runs.
MaxShortLen == 2

\* Bytes beyond the capacity of the transmit buffer a write is called with.
MaxOverrun == 2

Idx == 0..(BufferSize - 1)

\* uint8_t addition.
Add8(a, b) == (a + b) % 256

\* The checksum loops of write (138) and processMessage (289):
\* checksum = 0; for (i = 0; i < n; i++) checksum += a[i];
\* The loop started at index 1.
RECURSIVE Checksum_SkipFirst(_, _)
Checksum_SkipFirst(a, n) ==
    IF n <= 1 THEN 0 ELSE Add8(Checksum_SkipFirst(a, n - 1), a[n - 1])

RECURSIVE Checksum(_, _)
Checksum(a, n) == IF n = 0 THEN 0 ELSE Add8(Checksum(a, n - 1), a[n - 1])

\* A zero-initialised byte array (CCD is a global object).
ZeroBuf == [i \in Idx |-> 0]

\* The caller's buffer before read has stored anything in it.
Unset == -1
FreshTarget == [i \in Idx |-> Unset]

(***************************************************************************)
(* The bus as the receiver sees it.  A frame on the bus is one of a few     *)
(* byte streams: stream s starts with seed and every later byte is the sum  *)
(* mod 256 of the bytes before it plus delta, so every prefix of two or     *)
(* more bytes of a stream with delta 0 carries a correct checksum and no    *)
(* prefix of a stream with delta 1 does.                                    *)
(***************************************************************************)
Streams ==
    << [seed |-> 16, delta |-> 0],
       [seed |-> 32, delta |-> 1] >>

StreamIds == 1..Len(Streams)

\* The sum mod 256 of the first k bytes of stream s, and its byte k.
RECURSIVE StreamSum(_, _)
StreamSum(s, k) ==
    IF k = 0 THEN 0
    ELSE IF k = 1 THEN Streams[s].seed
    ELSE Add8(Add8(StreamSum(s, k - 1), StreamSum(s, k - 1)), Streams[s].delta)
StreamByte(s, k) ==
    IF k = 0 THEN Streams[s].seed ELSE Add8(StreamSum(s, k), Streams[s].delta)

StreamTable == [s \in StreamIds |-> [k \in 0..(MaxBurst + 1) |-> StreamByte(s, k)]]

\* The buffers the application passes to write: byte i is seed + 3 i mod 256.
\* The seeds are the ID bytes, 0x10 and 0x20.
TxSeeds == {16, 32}
TxInput(seed) == [i \in Idx |-> (seed + 3 * i) % 256]

\* What a load past the end of a byte array can yield.
SpillBytes == {0, 255}

Max(a, b) == IF a >= b THEN a ELSE b

\* Error bits of UCSR1A the receive handler keeps, and the overflow bit it adds.
RxErrors == { {}, {"FE"} }

VARIABLES
    \* configuration, set by begin
    _interruptsAvailable, _verifyRxChecksum, _calculateTxChecksum,
    \* what the bus and the application do in this run: the longest frame on
    \* the bus, the frames it delivers, the non-empty writes and their lengths
    limits,
    \* engine state
    _busIdle,
    _message, _messageLength, _lastMessageRead,
    _serialRxBuffer, _serialRxBufferPos,
    _serialTxBuffer, _serialTxBufferPos, _serialTxLength,
    _lastSerialError,
    \* peripheral state the engine switches
    UDRIE1,       \* UCSR1B: transmit-data-ready interrupt enabled
    RXCIE1,       \* UCSR1B: receiver and receive-complete interrupt enabled
    timer3,       \* TCCR3B: the idle countdown is running
    udr,          \* UDR1: the byte written for transmission, Unset once shifted out
    txOff,        \* the transceiver has switched its transmitter off (169-171)
    \* foreground
    pc,           \* where the application is
    target,       \* read: the caller's buffer
    ri,           \* read: the loop index i of 116
    buffer, bufferLength,   \* write: the caller's buffer and length
    arb,          \* write: the locals of the bit-banged first byte
    ret, op,      \* the last call that returned, and its value
    \* the bus
    rxStream, rxSent, nFrames, nWrites,
    peerArb,      \* the locals of a second transmitter that started with this one
    arbExt,       \* what the bus did to the line during the bit-banged byte
    \* bookkeeping for the properties
    txOut,        \* the bytes written to UDR1 since the last write was called
    rxMixed,      \* the staging buffer holds a byte no received-byte event of the
                  \* current bus frame stored (write's sampled ID byte, an echo)
    availAtCall,  \* available() when the last read was called
    fresh,        \* a frame was handed to the assembler since the last read
    readFresh,    \* fresh, when the last read was called
    lastStream, lastLen,  \* the frame the last non-empty idle event processed
    goodSince,    \* a frame was copied to the message slot since the last read
    idleSeen,     \* write read Bus State as idle and no callback marked it busy since
    frames,       \* the (length, message) pairs the mailbox held during the read
                  \* in progress: at the call and after each idle event since
    lateFrame,    \* a frame was copied to the message slot after the read in
                  \* progress had finished its copy loop
    overlap,      \* the frame now staged was staged while another was in flight
    spill         \* the highest index past the capacity of _serialTxBuffer that
                  \* was stored to or loaded from; 0 when there was none

engine == << _busIdle, _message, _messageLength, _lastMessageRead,
             _serialRxBuffer, _serialRxBufferPos, _serialTxBuffer,
             _serialTxBufferPos, _serialTxLength, _lastSerialError >>
config == << _interruptsAvailable, _verifyRxChecksum, _calculateTxChecksum,
             limits >>
periph == << UDRIE1, RXCIE1, timer3, udr, txOff >>
fg     == << pc, target, ri, buffer, bufferLength, arb, ret, op >>
bus    == << rxStream, rxSent, nFrames, nWrites, peerArb, arbExt >>
ghost  == << txOut, rxMixed, availAtCall, fresh, readFresh, lastStream, lastLen,
             goodSince, idleSeen, frames, lateFrame, overlap, spill >>
vars   == << config, engine, periph, fg, bus, ghost >>

\* The message slot, the receive staging state and the transmit staging state.
mailbox == << _message, _messageLength, _lastMessageRead >>
rxState == << _serialRxBuffer, _serialRxBufferPos >>
txState == << _serialTxBuffer, _serialTxBufferPos, _serialTxLength >>
rxGhost == << rxMixed, fresh, lastStream, lastLen, goodSince >>
rdGhost == << availAtCall, readFresh >>
rdLocals == << target, ri >>
rdTrack == << frames, lateFrame >>
wrGhost == << idleSeen, overlap, spill >>

(***************************************************************************)
(* The locals of write's bit-banged first byte (189-193) and the level of   *)
(* the TX pin (186: idling at logic high).                                  *)
(***************************************************************************)
ArbLocals(tx) ==
    [IDbyteTX |-> tx, IDbyteRX |-> 0, currentTxBit |-> FALSE, error |-> FALSE,
     pin |-> TRUE]

NoArb == ArbLocals(0)

\* 215: IDbyteTX & (1 << i)
BitOf(b, i) == (b \div (2 ^ i)) % 2 = 1

\* What the bus does to the receive line while a bit is sampled: "free" leaves
\* it to the transmitters (wired AND: low if any TX pin is low), "low" is a
\* node outside the arbitration pulling it low, "high" is a line that does not
\* follow the TX pin.
Sense(sts, ext) ==
    CASE ext = "low"  -> FALSE
      [] ext = "high" -> TRUE
      [] OTHER        -> \A k \in DOMAIN sts : sts[k].pin

\* 197-198: the line must idle high before the start bit.
PreCheck(st, rxbit) == [st EXCEPT !.error = ~rxbit]

\* 201-203
StartDrive(st) == IF st.error THEN st ELSE [st EXCEPT !.pin = FALSE]

\* 205-206
StartSample(st, rxbit) == IF st.error THEN st ELSE [st EXCEPT !.error = rxbit]

\* 213-218
DataDrive(st, i) ==
    IF st.error THEN st
    ELSE [st EXCEPT !.currentTxBit = BitOf(st.IDbyteTX, i),
                    !.pin = BitOf(st.IDbyteTX, i)]

\* 221-223
DataSample(st, i, rxbit) ==
    [st EXCEPT !.IDbyteRX = IF rxbit THEN @ + 2 ^ i ELSE @,
               !.error = @ \/ (rxbit # st.currentTxBit)]

\* 228
StopDrive(st) == IF st.error THEN st ELSE [st EXCEPT !.pin = TRUE]

\* 230-231
StopSample(st, rxbit) == [st EXCEPT !.error = @ \/ ~rxbit]

\* 211-225: the transmitters drive bit i, then all sample the same line.
RECURSIVE DataBits(_, _, _)
DataBits(sts, ext, i) ==
    IF i = 8 THEN sts
    ELSE LET d == [k \in DOMAIN sts |-> DataDrive(sts[k], i)]
             r == Sense(d, ext[2 + i])
         IN  DataBits([k \in DOMAIN sts |-> DataSample(d[k], i, r)], ext, i + 1)

\* 197-232 for transmitters that start in the same instant.  ext[0] is the
\* line before the start bit, ext[1] during it, ext[2..9] during the data bits
\* and ext[10] during the stop bit.
BitBang(sts, ext) ==
    LET r0 == Sense(sts, ext[0])
        s0 == [k \in DOMAIN sts |-> PreCheck(sts[k], r0)]
        d1 == [k \in DOMAIN sts |-> StartDrive(s0[k])]
        r1 == Sense(d1, ext[1])
        s1 == [k \in DOMAIN sts |-> StartSample(d1[k], r1)]
        s9 == DataBits(s1, ext, 0)
        dS == [k \in DOMAIN sts |-> StopDrive(s9[k])]
        rS == Sense(dS, ext[10])
    IN  [k \in DOMAIN sts |-> StopSample(dS[k], rS)]

\* The echoed byte compared, the error flag forgotten.
ArbWon_IgnoreError(st) == st.IDbyteRX = st.IDbyteTX

\* 241
ArbWon(st) == ~st.error /\ st.IDbyteRX = st.IDbyteTX

\* 259, 275
ArbResult(st) == IF ArbWon(st) THEN 0 ELSE 3

\* The bus during the first byte: undisturbed, already busy, not following
\* the TX pin during the start bit, pulled low during the stop bit.
ExtFree == [p \in 0..10 |-> "free"]
ExtNames == {"free", "busy", "noecho", "stoplow"}
ExtPattern(e) ==
    CASE e = "busy"    -> [ExtFree EXCEPT ![0] = "low"]
      [] e = "noecho"  -> [ExtFree EXCEPT ![1] = "high"]
      [] e = "stoplow" -> [ExtFree EXCEPT ![10] = "low"]
      [] OTHER         -> ExtFree

\* The bounds of a run: frames of up to 18 bytes and one write of up to 16;
\* short frames and no write; short frames and one short write; two short
\* writes on an otherwise silent bus; writes longer than the transmit buffer.
LongRun ==
    [burst |-> MaxBurst, frames |-> MaxRxFrames, writes |-> MaxWrites,
     lengths |-> 0..BufferSize]
ShortRun ==
    [burst |-> MaxShortBurst, frames |-> MaxShortFrames, writes |-> 0,
     lengths |-> {0}]
BusRun ==
    [burst |-> MaxShortBurst, frames |-> MaxBusFrames, writes |-> MaxWrites,
     lengths |-> 0..MaxShortLen]
TwoWriteRun ==
    [burst |-> 0, frames |-> 0, writes |-> MaxShortWrites,
     lengths |-> 0..MaxShortLen]
AnyLengthRun ==
    [burst |-> 0, frames |-> 0, writes |-> MaxWrites,
     lengths |-> {1, BufferSize} \cup (BufferSize + 1)..(BufferSize + MaxOverrun)]

\* The ID bytes of a second transmitter; NoPeer when there is none.
NoPeer == Unset
PeerIds == {16, 32, 48}

(***************************************************************************)
(* begin (40-106) with serialInit (381-401): the state every run starts in. *)
(***************************************************************************)
Begin(ia, vr, ct) ==
    /\ _interruptsAvailable = ia
    /\ _verifyRxChecksum = vr
    /\ _calculateTxChecksum = ct
    /\ _messageLength = 0
    /\ _lastMessageRead = TRUE
    /\ _serialRxBufferPos = 0
    /\ _serialTxBufferPos = 0
    /\ _serialTxLength = 0
    /\ _lastSerialError = {}
    /\ RXCIE1 = TRUE
    /\ UDRIE1 = FALSE
    /\ udr = Unset
    /\ txOff = FALSE
    /\ _busIdle = ia            \* 85: idle with the transceiver, 102: busy without
    /\ timer3 = ~ia             \* 104: busIdleTimerStart
    /\ _message = ZeroBuf
    /\ _serialRxBuffer = ZeroBuf
    /\ _serialTxBuffer = ZeroBuf

InitForeground ==
    /\ pc = "main"
    /\ target = FreshTarget
    /\ ri = 0
    /\ buffer = ZeroBuf
    /\ bufferLength = 0
    /\ arb = NoArb
    /\ ret = 0
    /\ op = "none"

InitBus ==
    /\ rxStream = 0
    /\ rxSent = 0
    /\ nFrames = 0
    /\ nWrites = 0
    /\ peerArb = NoArb
    /\ arbExt = "free"

InitGhost ==
    /\ txOut = << >>
    /\ rxMixed = FALSE
    /\ availAtCall = FALSE
    /\ fresh = FALSE
    /\ readFresh = FALSE
    /\ lastStream = 0
    /\ lastLen = 0
    /\ goodSince = FALSE
    /\ idleSeen = FALSE
    /\ frames = {}
    /\ lateFrame = FALSE
    /\ overlap = FALSE
    /\ spill = 0

Init ==
    /\ \E ia \in BOOLEAN, vr \in BOOLEAN, ct \in BOOLEAN : Begin(ia, vr, ct)
    /\ limits = LongRun
    /\ InitForeground
    /\ InitBus
    /\ InitGhost

\* available (108-111)
available == ~_lastMessageRead

(***************************************************************************)
(* processMessage (280-315)                                                *)
(***************************************************************************)
\* 287-291
ChecksumOk ==
    Checksum(_serialRxBuffer, _serialRxBufferPos - 1)
        = _serialRxBuffer[_serialRxBufferPos - 1]

\* The copy loop stopped one byte early.
CopyToMessage_Short ==
    [i \in Idx |-> IF i < _serialRxBufferPos - 1 THEN _serialRxBuffer[i] ELSE _message[i]]

\* 294, 308: for (i = 0; i < _serialRxBufferPos; i++) _message[i] = _serialRxBuffer[i];
CopyToMessage ==
    [i \in Idx |-> IF i < _serialRxBufferPos THEN _serialRxBuffer[i] ELSE _message[i]]

\* 285
Verifies == _verifyRxChecksum /\ _serialRxBufferPos > 1

\* 285, 291: the frame in the staging buffer is copied to the message slot.
Accepts == ~Verifies \/ ChecksumOk

\* 313
SetAvailable == _lastMessageRead' = FALSE

\* The assembler without the test of 283.
processMessage_NoEmptyTest ==
    /\ IF Accepts
       THEN /\ _message' = CopyToMessage
            /\ _messageLength' = _serialRxBufferPos
       ELSE /\ _messageLength' = 0
            /\ _message' = _message
    /\ _serialRxBufferPos' = 0
    /\ SetAvailable

processMessage ==
    IF _serialRxBufferPos > 0
    THEN /\ IF Accepts
            THEN /\ _message' = CopyToMessage
                 /\ _messageLength' = _serialRxBufferPos
            ELSE /\ _messageLength' = 0
                 /\ _message' = _message
         /\ _serialRxBufferPos' = 0
         /\ SetAvailable
    ELSE UNCHANGED << _message, _messageLength, _serialRxBufferPos, _lastMessageRead >>

\* The bus can be silent for the idle time only when this node has nothing on
\* it: no byte is being shifted out and none follows back to back.
BusSilent ==
    /\ udr = Unset
    /\ txOff \/ ~(UDRIE1 /\ _serialTxBufferPos < _serialTxLength)

\* The foreground is inside read.
ReadInProgress == pc \in {"read_loop", "read_flag", "read_ret"}

\* What an idle event records about the frame it closes.
IdleBookkeeping ==
    /\ BusSilent
    /\ txOff' = FALSE
    /\ rxStream' = 0
    /\ rxSent' = 0
    /\ rxMixed' = FALSE
    /\ IF _serialRxBufferPos > 0
       THEN /\ fresh' = TRUE
            /\ lastStream' = IF rxMixed THEN 0 ELSE rxStream
            /\ lastLen' = IF rxMixed THEN 0 ELSE rxSent
            /\ goodSince' = (goodSince \/ Accepts)
            /\ frames' = IF ReadInProgress
                          THEN frames \cup {[len |-> _messageLength', msg |-> _message']}
                          ELSE frames
            /\ lateFrame' = (lateFrame \/ (pc = "read_flag" /\ Accepts))
       ELSE UNCHANGED << fresh, lastStream, lastLen, goodSince, rdTrack >>

(***************************************************************************)
(* handle_TIMER3_COMPA_vect (322-327): the idle countdown expired.          *)
(***************************************************************************)
handle_TIMER3_COMPA_vect ==
    /\ timer3
    /\ timer3' = FALSE                          \* busIdleTimerStop
    /\ _busIdle' = TRUE
    /\ processMessage
    /\ IdleBookkeeping
    /\ UNCHANGED << config, _serialRxBuffer, txState, _lastSerialError,
                    UDRIE1, RXCIE1, udr, fg, nFrames, nWrites, peerArb, arbExt,
                    txOut, rdGhost, wrGhost >>

(***************************************************************************)
(* busIdleInterruptHandler (443-447): falling edge of the IDLE pin.         *)
(***************************************************************************)
busIdleInterruptHandler ==
    /\ _interruptsAvailable                     \* 81: attached only with the transceiver
    /\ _busIdle' = TRUE
    /\ processMessage
    /\ IdleBookkeeping
    /\ UNCHANGED << config, _serialRxBuffer, txState, _lastSerialError,
                    UDRIE1, RXCIE1, timer3, udr, fg, nFrames, nWrites, peerArb, arbExt,
                    txOut, rdGhost, wrGhost >>

(***************************************************************************)
(* activeByteInterruptHandler (449-452): falling edge of the CTRL pin.      *)
(***************************************************************************)
activeByteInterruptHandler ==
    /\ _interruptsAvailable                     \* 82
    /\ _busIdle' = FALSE
    /\ idleSeen' = FALSE
    /\ UNCHANGED << config, mailbox, rxState, txState, _lastSerialError,
                    periph, fg, bus, txOut, rxGhost, rdGhost, rdTrack, overlap,
                    spill >>

(***************************************************************************)
(* handle_USART1_RX_vect (334-359) for a received byte data with the error  *)
(* bits usr of the status register.                                         *)
(***************************************************************************)
\* The byte stored without the capacity check of 347.
RxStore_NoBound(data, usr) ==
    /\ timer3' = (timer3 \/ ~_interruptsAvailable)
    /\ _busIdle' = FALSE
    /\ _serialRxBuffer' = [i \in Idx |-> IF i = _serialRxBufferPos THEN data
                                          ELSE _serialRxBuffer[i]]
    /\ _serialRxBufferPos' = _serialRxBufferPos + 1
    /\ _lastSerialError' = usr

\* The byte stored without the countdown being started (336 left out).
RxStore_NoRearm(data, usr) ==
    /\ timer3' = timer3
    /\ _busIdle' = FALSE
    /\ IF _serialRxBufferPos < BufferSize
       THEN /\ _serialRxBuffer' = [_serialRxBuffer EXCEPT ![_serialRxBufferPos] = data]
            /\ _serialRxBufferPos' = _serialRxBufferPos + 1
            /\ _lastSerialError' = usr
       ELSE /\ UNCHANGED << _serialRxBuffer, _serialRxBufferPos >>
            /\ _lastSerialError' = usr \cup {"OVF"}

RxStore(data, usr) ==
    /\ timer3' = (timer3 \/ ~_interruptsAvailable)      \* 336
    /\ _busIdle' = FALSE                                \* 337
    /\ IF _serialRxBufferPos < BufferSize
       THEN /\ _serialRxBuffer' = [_serialRxBuffer EXCEPT ![_serialRxBufferPos] = data]
            /\ _serialRxBufferPos' = _serialRxBufferPos + 1
            /\ _lastSerialError' = usr
       ELSE /\ UNCHANGED << _serialRxBuffer, _serialRxBufferPos >>
            /\ _lastSerialError' = usr \cup {"OVF"}     \* 354

\* The bus delivers the next byte of the frame another node sends.
handle_USART1_RX_vect ==
    /\ RXCIE1
    /\ udr = Unset
    /\ rxSent < limits.burst
    /\ \E s \in StreamIds, usr \in RxErrors :
        /\ IF rxSent = 0
           THEN nFrames < limits.frames /\ nFrames' = nFrames + 1
           ELSE s = rxStream /\ nFrames' = nFrames
        /\ rxStream' = s
        /\ rxSent' = rxSent + 1
        /\ RxStore(StreamTable[s][rxSent], usr)
    /\ idleSeen' = FALSE
    /\ UNCHANGED << config, mailbox, txState, UDRIE1, RXCIE1, udr, txOff, fg,
                    nWrites, peerArb, arbExt, txOut, rxGhost, rdGhost, rdTrack,
                    overlap, spill >>

\* The byte this node transmits is on the bus and its own receiver hears it.
RxEcho ==
    /\ RXCIE1
    /\ ~txOff
    /\ udr # Unset
    /\ RxStore(udr, {})
    /\ udr' = Unset
    /\ rxMixed' = TRUE
    /\ idleSeen' = FALSE
    /\ UNCHANGED << config, mailbox, txState, UDRIE1, RXCIE1, txOff, fg, bus,
                    txOut, fresh, lastStream, lastLen, goodSince, rdGhost,
                    rdTrack, overlap, spill >>

\* The byte this node transmits never reaches the bus (the transceiver has
\* switched its transmitter off after a collision, 169-171).
TxLost ==
    /\ txOff
    /\ udr # Unset
    /\ udr' = Unset
    /\ UNCHANGED << config, engine, UDRIE1, RXCIE1, timer3, txOff, fg, bus, ghost >>

(***************************************************************************)
(* handle_USART1_UDRE_vect (366-379): the transmit data register is empty.  *)
(***************************************************************************)
\* The handler loading the first byte of the frame every time.
TxLoad_First == {_serialTxBuffer[0]}

\* 370: the byte loaded from _serialTxBuffer[_serialTxBufferPos].  A load past
\* the end of the array yields whatever the memory behind it holds.
TxLoad ==
    IF _serialTxBufferPos < BufferSize
    THEN {_serialTxBuffer[_serialTxBufferPos]}
    ELSE SpillBytes

handle_USART1_UDRE_vect ==
    /\ UDRIE1
    /\ udr = Unset
    /\ IF _serialTxBufferPos < _serialTxLength
       THEN /\ udr' \in TxLoad
            /\ txOut' = Append(txOut, IF _serialTxBufferPos < BufferSize
                                       THEN _serialTxBuffer[_serialTxBufferPos]
                                       ELSE Unset)
            /\ spill' = IF _serialTxBufferPos < BufferSize THEN spill
                         ELSE Max(spill, _serialTxBufferPos)
            /\ _serialTxBufferPos' = _serialTxBufferPos + 1
            /\ UNCHANGED << UDRIE1, _serialTxLength >>
       ELSE /\ UDRIE1' = FALSE
            /\ _serialTxBufferPos' = 0
            /\ _serialTxLength' = 0
            /\ UNCHANGED << udr, txOut, spill >>
    /\ UNCHANGED << config, _busIdle, mailbox, rxState, _serialTxBuffer,
                    _lastSerialError, RXCIE1, timer3, txOff, fg, bus,
                    rxGhost, rdGhost, rdTrack, idleSeen, overlap >>

(***************************************************************************)
(* read (113-120), not preempted.                                           *)
(***************************************************************************)
\* 116: for (i = 0; i < _messageLength; i++) target[i] = _message[i];
ReadCopy == [i \in Idx |-> IF i < _messageLength THEN _message[i] ELSE Unset]

\* 119
ReadResult == _messageLength

read ==
    /\ pc = "main"
    /\ target' = ReadCopy
    /\ _lastMessageRead' = TRUE                 \* 118
    /\ ret' = ReadResult
    /\ op' = "read"
    /\ availAtCall' = available
    /\ readFresh' = fresh
    /\ fresh' = FALSE
    /\ goodSince' = FALSE
    /\ UNCHANGED << config, _busIdle, _message, _messageLength, rxState, txState,
                    _lastSerialError, periph, pc, ri, buffer, bufferLength, arb, bus,
                    txOut, rxMixed, lastStream, lastLen, rdTrack, wrGhost >>

(***************************************************************************)
(* read (113-120) as the foreground executes it, one access to the shared   *)
(* members per step, so that the callbacks can run between any two of them  *)
(* (read suppresses no interrupt).  The accesses are taken in program       *)
(* order, as for volatile members.                                          *)
(***************************************************************************)
ReadCall ==
    /\ pc = "main"
    /\ pc' = "read_loop"
    /\ ri' = 0                                  \* 116: i = 0
    /\ target' = FreshTarget
    /\ availAtCall' = available
    /\ readFresh' = fresh
    /\ frames' = {[len |-> _messageLength, msg |-> _message]}
    /\ lateFrame' = FALSE
    /\ UNCHANGED << config, engine, periph, buffer, bufferLength, arb, ret, op,
                    bus, txOut, rxGhost, wrGhost >>

\* 116: i < _messageLength; target[i] = _message[i]; i++
ReadLoop ==
    /\ pc = "read_loop"
    /\ IF ri < _messageLength
       THEN /\ target' = [target EXCEPT ![ri] = _message[ri]]
            /\ ri' = ri + 1
            /\ pc' = pc
       ELSE /\ pc' = "read_flag"
            /\ UNCHANGED << target, ri >>
    /\ UNCHANGED << config, engine, periph, buffer, bufferLength, arb, ret, op,
                    bus, ghost >>

\* 118
ReadSetFlag ==
    /\ pc = "read_flag"
    /\ _lastMessageRead' = TRUE
    /\ pc' = "read_ret"
    /\ fresh' = FALSE
    /\ goodSince' = FALSE
    /\ UNCHANGED << config, _busIdle, _message, _messageLength, rxState, txState,
                    _lastSerialError, periph, rdLocals, buffer, bufferLength, arb,
                    ret, op, bus, txOut, rxMixed, lastStream, lastLen, rdGhost,
                    rdTrack, wrGhost >>

\* 119
ReadReturn ==
    /\ pc = "read_ret"
    /\ ret' = ReadResult
    /\ op' = "read"
    /\ pc' = "main"
    /\ UNCHANGED << config, engine, periph, rdLocals, buffer, bufferLength, arb,
                    bus, ghost >>

readSteps ==
    \/ ReadCall
    \/ ReadLoop
    \/ ReadSetFlag
    \/ ReadReturn

(***************************************************************************)
(* write (122-278).                                                         *)
(***************************************************************************)
\* The length check of 130 left out.
IsEmpty_Never(n) == FALSE

\* 130: if (bufferLength == 0) return 1;
IsEmpty(n) == n = 0

\* 132: for (i = 0; i < bufferLength; i++) _serialTxBuffer[i] = buffer[i];
CopyToTx(buf, n) ==
    [i \in Idx |-> IF i < n THEN buf[i] ELSE _serialTxBuffer[i]]

\* 134-140: the last byte is overwritten with the checksum of the caller's bytes.
\* With n > 16 the stores of 132 from index 16 on and the store of 139 land
\* past the end of the array: WriteCall records them in spill.  What they
\* overwrite there is decided by the layout of the object, declared in
\* CCDLibrary.h; the engine state modelled here is left as it is.
StageTx(buf, n) ==
    IF _calculateTxChecksum /\ n > 1 /\ n <= BufferSize
    THEN [CopyToTx(buf, n) EXCEPT ![n - 1] = Checksum(buf, n - 1)]
    ELSE CopyToTx(buf, n)

\* 130-146: the call is rejected, or the frame is staged.
WriteCall ==
    /\ pc = "main"
    /\ \E seed \in TxSeeds, n \in limits.lengths :
        /\ buffer' = TxInput(seed)
        /\ bufferLength' = n
        /\ IF IsEmpty(n)
           THEN /\ ret' = 1
                /\ op' = "write"
                /\ UNCHANGED << txState, pc, nWrites, txOut, overlap, spill >>
           ELSE /\ nWrites < limits.writes
                /\ nWrites' = nWrites + 1
                /\ _serialTxBuffer' = StageTx(TxInput(seed), n)
                /\ _serialTxBufferPos' = 0              \* 142
                /\ _serialTxLength' = n                 \* 143
                /\ pc' = "wait"
                /\ txOut' = << >>
                /\ overlap' = UDRIE1
                /\ spill' = IF n > BufferSize THEN Max(spill, n - 1) ELSE spill
                /\ UNCHANGED << ret, op >>
    /\ UNCHANGED << config, _busIdle, mailbox, rxState, _lastSerialError, periph,
                    rdLocals, arb, rxStream, rxSent, nFrames, peerArb, arbExt,
                    rxGhost, rdGhost, rdTrack, idleSeen >>

\* 148-153: the bus stayed busy for a second.
WriteTimeout ==
    /\ pc = "wait"
    /\ ~_busIdle
    /\ ret' = 2
    /\ op' = "write"
    /\ pc' = "main"
    /\ UNCHANGED << config, engine, periph, rdLocals, buffer, bufferLength, arb,
                    bus, ghost >>

\* 148: the loop ends with the bus idle.
WriteSeesIdle ==
    /\ pc = "wait"
    /\ _busIdle
    /\ pc' = "start"
    /\ idleSeen' = TRUE
    /\ UNCHANGED << config, engine, periph, rdLocals, buffer, bufferLength, arb,
                    ret, op, bus, txOut, rxGhost, rdGhost, rdTrack, overlap, spill >>

\* 164
WriteClearIdle ==
    /\ pc = "start"
    /\ _busIdle' = FALSE
    /\ pc' = "branch"
    /\ UNCHANGED << config, mailbox, rxState, txState, _lastSerialError, periph,
                    rdLocals, buffer, bufferLength, arb, ret, op, bus, ghost >>

\* 166-174: the transceiver arbitrates.
WriteHardware ==
    /\ pc = "branch"
    /\ _interruptsAvailable
    /\ UDRIE1' = TRUE
    /\ txOff' \in BOOLEAN          \* another node may win the first byte
    /\ ret' = 0
    /\ op' = "write"
    /\ pc' = "main"
    /\ idleSeen' = FALSE
    /\ UNCHANGED << config, engine, RXCIE1, timer3, udr, rdLocals, buffer,
                    bufferLength, arb, bus, txOut, rxGhost, rdGhost, rdTrack,
                    overlap, spill >>

\* 180: the UART is switched off for the bit-banged first byte.
WriteUartOff ==
    /\ pc = "branch"
    /\ ~_interruptsAvailable
    /\ RXCIE1' = FALSE
    /\ UDRIE1' = FALSE
    /\ pc' = "bitbang"
    /\ UNCHANGED << config, engine, timer3, udr, txOff, rdLocals, buffer,
                    bufferLength, arb, ret, op, bus, ghost >>

\* 189-232: the first byte, alone on the bus or against a second transmitter.
WriteBitBang ==
    /\ pc = "bitbang"
    /\ \E peer \in PeerIds \cup {NoPeer}, e \in ExtNames :
        LET me  == ArbLocals(_serialTxBuffer[0])
            sts == IF peer = NoPeer THEN << me >> ELSE << me, ArbLocals(peer) >>
            res == BitBang(sts, ExtPattern(e))
        IN  /\ arb' = res[1]
            /\ peerArb' = IF peer = NoPeer THEN NoArb ELSE res[2]
            /\ arbExt' = e
    /\ pc' = "finish"
    /\ UNCHANGED << config, engine, periph, rdLocals, buffer, bufferLength, ret, op,
                    rxStream, rxSent, nFrames, nWrites, ghost >>

\* 235-276
WriteFinish ==
    /\ pc = "finish"
    /\ timer3' = TRUE                                           \* 235
    /\ _serialRxBuffer' = [_serialRxBuffer EXCEPT ![0] = arb.IDbyteRX]
    /\ _serialRxBufferPos' = 1
    /\ IF ArbWon(arb)
       THEN /\ _serialTxBufferPos' = 1                          \* 251
            /\ UDRIE1' = TRUE                                   \* 257
            /\ UNCHANGED _serialTxLength
       ELSE /\ _serialTxBufferPos' = 0                          \* 269
            /\ _serialTxLength' = 0                             \* 270
            /\ UNCHANGED UDRIE1
    /\ RXCIE1' = TRUE                                           \* 254, 273
    /\ ret' = ArbResult(arb)
    /\ op' = "write"
    /\ pc' = "main"
    /\ rxMixed' = TRUE
    /\ arb' = NoArb                                             \* the locals die
    /\ peerArb' = NoArb
    /\ arbExt' = "free"
    /\ idleSeen' = FALSE
    /\ UNCHANGED << config, _busIdle, mailbox, _serialTxBuffer, _lastSerialError,
                    udr, txOff, rdLocals, buffer, bufferLength, rxStream, rxSent, nFrames,
                    nWrites, txOut, fresh, lastStream, lastLen, goodSince, rdGhost,
                    rdTrack, overlap, spill >>

write ==
    \/ WriteCall
    \/ WriteTimeout
    \/ WriteSeesIdle
    \/ WriteClearIdle
    \/ WriteHardware
    \/ WriteUartOff
    \/ WriteBitBang
    \/ WriteFinish

NextRx ==
    \/ handle_USART1_RX_vect
    \/ handle_TIMER3_COMPA_vect
    \/ busIdleInterruptHandler
    \/ activeByteInterruptHandler
    \/ read

\* The receive path alone: no frame is ever written.
InitRx ==
    /\ \E ia \in BOOLEAN, vr \in BOOLEAN : Begin(ia, vr, FALSE)
    /\ limits = LongRun
    /\ InitForeground
    /\ InitBus
    /\ InitGhost

SpecRx == InitRx /\ [][NextRx]_vars

\* The transmit path: the bus carries what this node sends and nothing else.
NextTx ==
    \/ write
    \/ handle_USART1_UDRE_vect
    \/ RxEcho
    \/ TxLost
    \/ handle_TIMER3_COMPA_vect
    \/ busIdleInterruptHandler
    \/ activeByteInterruptHandler

SpecTx == Init /\ [][NextTx]_vars

\* The receive path with short frames and a read that can be preempted.
InitRead ==
    /\ \E ia \in BOOLEAN, vr \in BOOLEAN : Begin(ia, vr, FALSE)
    /\ limits = ShortRun
    /\ InitForeground
    /\ InitBus
    /\ InitGhost

NextRead ==
    \/ handle_USART1_RX_vect
    \/ handle_TIMER3_COMPA_vect
    \/ busIdleInterruptHandler
    \/ activeByteInterruptHandler
    \/ readSteps

SpecRead == InitRead /\ [][NextRead]_vars

\* Both paths together, with short frames: the application writes while
\* other nodes use the bus.
InitBusRun ==
    /\ \E ia \in BOOLEAN, vr \in BOOLEAN, ct \in BOOLEAN : Begin(ia, vr, ct)
    /\ limits = BusRun
    /\ InitForeground
    /\ InitBus
    /\ InitGhost

NextBus ==
    \/ write
    \/ handle_USART1_RX_vect
    \/ handle_USART1_UDRE_vect
    \/ RxEcho
    \/ TxLost
    \/ handle_TIMER3_COMPA_vect
    \/ busIdleInterruptHandler
    \/ activeByteInterruptHandler

SpecBus == InitBusRun /\ [][NextBus]_vars

\* The same, with the interrupts served: a countdown that is running and not
\* restarted expires, a byte written to UDR1 is shifted out, and the
\* transmit-data-ready interrupt is taken while it is enabled.
Served ==
    /\ WF_vars(handle_TIMER3_COMPA_vect)
    /\ WF_vars(handle_USART1_UDRE_vect)
    /\ WF_vars(RxEcho)
    /\ WF_vars(TxLost)

SpecLive == SpecBus /\ Served

\* The transmit path with two short writes, the second of which may be
\* called while the frame of the first is still being sent.
InitTwoWrites ==
    /\ \E ia \in BOOLEAN, vr \in BOOLEAN, ct \in BOOLEAN : Begin(ia, vr, ct)
    /\ limits = TwoWriteRun
    /\ InitForeground
    /\ InitBus
    /\ InitGhost

SpecTx2 == InitTwoWrites /\ [][NextTx]_vars

\* The transmit path with writes of up to the capacity and of more.
InitAnyLength ==
    /\ \E ia \in BOOLEAN, vr \in BOOLEAN, ct \in BOOLEAN : Begin(ia, vr, ct)
    /\ limits = AnyLengthRun
    /\ InitForeground
    /\ InitBus
    /\ InitGhost

SpecAnyLength == InitAnyLength /\ [][NextTx]_vars

(***************************************************************************)
(* Properties.                                                             *)
(***************************************************************************)
IdleEvent == handle_TIMER3_COMPA_vect \/ busIdleInterruptHandler

\* The sum of the first n entries of f, as a number, and its low eight bits.
RECURSIVE SumTo(_, _)
SumTo(f, n) == IF n = 0 THEN 0 ELSE f[n - 1] + SumTo(f, n - 1)
SumMod256(f, n) == SumTo(f, n) % 256

\* The frame the last non-empty idle event closed, as the bus delivered it.
LastFrame == StreamTable[lastStream]

\* The last read was the first one after a frame the bus delivered, and no
\* frame was processed since.
ReadOfLastFrame ==
    /\ op = "read"
    /\ readFresh
    /\ ~fresh
    /\ lastStream # 0

\* C1: read called while available() is false returns 0; the second of two
\* reads with no frame assembled in between returns 0.
C1_ReadTwiceReturnsZero ==
    (op = "read" /\ ~availAtCall) => ret = 0

\* C2: without checksum verification, n bytes (1 <= n <= 16) delivered into an
\* empty staging buffer and one idle event make available() true, and the next
\* read returns n and those n bytes in order.
C2_ReadReturnsFrame ==
    /\ (fresh /\ ~_verifyRxChecksum /\ lastStream # 0 /\ lastLen <= BufferSize)
         => available
    /\ (ReadOfLastFrame /\ ~_verifyRxChecksum /\ lastLen <= BufferSize)
         => /\ availAtCall
            /\ ret = lastLen
            /\ \A i \in Idx :
                 target[i] = IF i < lastLen THEN LastFrame[i] ELSE Unset

C2_Witness ==
    /\ ReadOfLastFrame
    /\ ~_verifyRxChecksum
    /\ lastLen = BufferSize
    /\ ret = BufferSize
    /\ target[BufferSize - 1] = LastFrame[BufferSize - 1]
    /\ nFrames = 2

\* C3: with verification on, an idle event that finds two or more bytes whose
\* last byte is not the sum mod 256 of the others sets the length to 0, resets
\* the cursor and leaves the availability flag as it was.
C3_BadFrameLeavesFlag ==
    [][ ( /\ IdleEvent
          /\ _verifyRxChecksum
          /\ _serialRxBufferPos >= 2
          /\ _serialRxBuffer[_serialRxBufferPos - 1]
                # SumMod256(_serialRxBuffer, _serialRxBufferPos - 1) )
        => ( /\ _messageLength' = 0
             /\ _serialRxBufferPos' = 0
             /\ _lastMessageRead' = _lastMessageRead ) ]_vars

\* The last frame the bus delivered passes the receiver's checksum rule.
LastFrameGood ==
    LET n == IF lastLen <= BufferSize THEN lastLen ELSE BufferSize
    IN  \/ ~_verifyRxChecksum
        \/ n < 2
        \/ LastFrame[n - 1] = SumMod256(LastFrame, n - 1)

\* C4: available() is true iff a frame was successfully assembled since the
\* last read, and a read returns the last successfully assembled frame only.
C4_MailboxLastWriteWins ==
    /\ available <=> goodSince
    /\ (ReadOfLastFrame /\ LastFrameGood /\ lastLen <= BufferSize)
         => /\ ret = lastLen
            /\ \A i \in Idx : i < lastLen => target[i] = LastFrame[i]

\* C10: the receive cursor never exceeds 16; a byte received at cursor 16 is
\* dropped with the overflow bit recorded; the idle event after more than 16
\* bytes processes the first 16 and resets the cursor.
C10_RxOverflow ==
    /\ [](_serialRxBufferPos <= BufferSize)
    /\ [][ handle_USART1_RX_vect =>
            IF _serialRxBufferPos = BufferSize
            THEN /\ UNCHANGED << _serialRxBuffer, _serialRxBufferPos >>
                 /\ "OVF" \in _lastSerialError'
            ELSE /\ _serialRxBufferPos' = _serialRxBufferPos + 1
                 /\ _serialRxBuffer'[_serialRxBufferPos] = StreamTable[rxStream'][rxSent]
                 /\ "OVF" \notin _lastSerialError' ]_vars
    /\ [][ (IdleEvent /\ rxSent > BufferSize /\ ~rxMixed) =>
            /\ _serialRxBufferPos = BufferSize
            /\ \A i \in Idx : _serialRxBuffer[i] = StreamTable[rxStream][i]
            /\ _serialRxBufferPos' = 0
            /\ IF \/ ~_verifyRxChecksum
                  \/ StreamTable[rxStream][BufferSize - 1]
                       = SumMod256(StreamTable[rxStream], BufferSize - 1)
               THEN /\ _messageLength' = BufferSize
                    /\ \A i \in Idx : _message'[i] = StreamTable[rxStream][i]
               ELSE _messageLength' = 0 ]_vars

C10_Witness ==
    /\ lastLen = MaxBurst
    /\ lastLen > BufferSize
    /\ _messageLength = BufferSize
    /\ _serialRxBufferPos = 0
    /\ "OVF" \in _lastSerialError
    /\ \A i \in Idx : _message[i] = LastFrame[i]

\* The frame write is specified to stage for the caller's bytes buf and length n.
ExpectedStaged(buf, n, i) ==
    IF _calculateTxChecksum /\ n >= 2 /\ i = n - 1
    THEN SumMod256(buf, n - 1)
    ELSE buf[i]

\* C5: write with length 0 returns EmptyBuffer (1) at once and changes nothing:
\* not the transmit staging state, Bus State, the receive staging state or the
\* transmit interrupt enable, and it does not enter the bus-idle wait.
C5_EmptyWriteChangesNothing ==
    [][ (WriteCall /\ bufferLength' = 0) =>
          /\ ret' = 1
          /\ op' = "write"
          /\ pc' = "main"
          /\ UNCHANGED << txState, _busIdle, rxState, UDRIE1, mailbox, txOut >> ]_vars

C5_Witness ==
    /\ op = "write"
    /\ ret = 1
    /\ bufferLength = 0
    /\ pc = "main"
    /\ _serialTxLength > 0

\* C6: a write that times out returns Timeout (2), has transmitted no byte, has
\* not modified Bus State, and leaves transmit cursor and length at 0.
C6_TimeoutLeavesTxClean ==
    [][ WriteTimeout =>
          /\ ret' = 2
          /\ txOut' = << >>
          /\ _busIdle' = _busIdle
          /\ _serialTxBufferPos' = 0
          /\ _serialTxLength' = 0 ]_vars

\* C7: write stages the caller's bytes, the last one replaced by the sum mod
\* 256 of the others when the transmit checksum is on and the length is 2 or
\* more; a verifying receiver accepts a frame of 2 or more bytes exactly when
\* its last byte is that sum; so the frame such a write stages, heard back
\* whole, is accepted unchanged.
C7_ChecksumRoundTrip ==
    /\ [][ (WriteCall /\ bufferLength' >= 1) =>
            \A i \in Idx : i < bufferLength' =>
                _serialTxBuffer'[i] = ExpectedStaged(buffer', bufferLength', i) ]_vars
    /\ [][ (IdleEvent /\ _verifyRxChecksum /\ _serialRxBufferPos >= 2) =>
            IF _serialRxBuffer[_serialRxBufferPos - 1]
                 = SumMod256(_serialRxBuffer, _serialRxBufferPos - 1)
            THEN /\ _messageLength' = _serialRxBufferPos
                 /\ \A i \in Idx : i < _serialRxBufferPos =>
                        _message'[i] = _serialRxBuffer[i]
            ELSE /\ _messageLength' = 0
                 /\ _message' = _message ]_vars
    /\ [][ ( /\ IdleEvent
             /\ _verifyRxChecksum
             /\ _calculateTxChecksum
             /\ bufferLength >= 2
             /\ _serialRxBufferPos = bufferLength
             /\ \A i \in Idx : i < bufferLength =>
                    _serialRxBuffer[i] = ExpectedStaged(buffer, bufferLength, i) )
           => ( /\ _messageLength' = bufferLength
                /\ \A i \in Idx : i < bufferLength =>
                       _message'[i] = ExpectedStaged(buffer, bufferLength, i) ) ]_vars

C7_Witness ==
    /\ _verifyRxChecksum
    /\ _calculateTxChecksum
    /\ bufferLength = BufferSize
    /\ _messageLength = BufferSize
    /\ \A i \in Idx : _message[i] = ExpectedStaged(buffer, BufferSize, i)
    /\ _message[BufferSize - 1] # buffer[BufferSize - 1]
    /\ available

\* Two transmitters started the first byte together on an undisturbed bus.
TwoTransmitters ==
    /\ pc = "finish"
    /\ arbExt = "free"
    /\ peerArb.IDbyteTX # 0
    /\ peerArb.IDbyteTX # arb.IDbyteTX

\* C8: of two transmitters that start together with different ID bytes the one
\* with the numerically lower ID byte returns Ok, and the other returns
\* Collision having sampled the lower ID byte.
C8_LowerIdWins ==
    TwoTransmitters =>
        LET lo == IF arb.IDbyteTX < peerArb.IDbyteTX THEN arb ELSE peerArb
            hi == IF arb.IDbyteTX < peerArb.IDbyteTX THEN peerArb ELSE arb
        IN  /\ ArbResult(lo) = 0
            /\ ArbResult(hi) = 3
            /\ hi.IDbyteRX = lo.IDbyteTX

\* The last call was a write that lost the arbitration.
LostArbitration == op = "write" /\ ret = 3 /\ pc = "main"

\* C9: in software mode write returns Ok with cursor 1, the length kept and the
\* transmit interrupt on when no error occurred and the sampled byte is the
\* intended first byte, and otherwise Collision with cursor and length 0 and the
\* transmit interrupt off; either way the sampled byte is at index 0 of the
\* receive staging buffer with cursor 1.  After a loss nothing of the frame is
\* sent, and the next idle event with no further bytes assembles the sampled
\* byte as a 1-byte message.
C9_ArbitrationOutcome ==
    /\ [][ WriteFinish =>
            /\ IF ~arb.error /\ arb.IDbyteRX = buffer[0]
               THEN /\ ret' = 0
                    /\ _serialTxBufferPos' = 1
                    /\ _serialTxLength' = _serialTxLength
                    /\ UDRIE1'
               ELSE /\ ret' = 3
                    /\ _serialTxBufferPos' = 0
                    /\ _serialTxLength' = 0
                    /\ ~UDRIE1'
            /\ _serialRxBuffer'[0] = arb.IDbyteRX
            /\ _serialRxBufferPos' = 1
            /\ pc' = "main" ]_vars
    /\ [](LostArbitration =>
            /\ ~UDRIE1
            /\ _serialTxBufferPos = 0
            /\ _serialTxLength = 0)
    /\ [][ LostArbitration => Len(txOut') <= Len(txOut) ]_vars
    /\ [][ (IdleEvent /\ LostArbitration /\ rxMixed /\ _serialRxBufferPos = 1) =>
            /\ _messageLength' = 1
            /\ _message'[0] = _serialRxBuffer[0]
            /\ ~_lastMessageRead'
            /\ _serialRxBufferPos' = 0 ]_vars

C9_Witness ==
    /\ LostArbitration
    /\ ~_interruptsAvailable
    /\ _messageLength = 1
    /\ _message[0] # buffer[0]
    /\ available
    /\ _busIdle

\* The last call was a read that has returned.
ReadReturned == op = "read" /\ pc = "main" /\ frames # {}

\* C16: the length read returns and the bytes it stored in the caller's buffer
\* are the length and the bytes of one single frame the mailbox held during
\* the call, whatever idle events preempted it.
C16_ReadIsAtomic ==
    ReadReturned =>
        \E f \in frames :
            /\ ret = f.len
            /\ \A i \in Idx : target[i] = IF i < f.len THEN f.msg[i] ELSE Unset

\* C17: a frame copied to the message slot after read finished its copy loop
\* and before it set the read flag is still available after that read returns.
C17_LateFrameStillOffered ==
    (ReadReturned /\ lateFrame) => available

\* write starts its transmission: 172 with the transceiver, 180 without.
WriteStarts == WriteHardware \/ WriteUartOff

\* C11: write starts a transmission only if no byte-received or active-byte
\* callback has marked the bus busy since write read Bus State as idle.
C11_WriteSeesConsistentIdle ==
    [][ WriteStarts => idleSeen ]_vars

\* C18: whenever Bus State is idle the receive staging buffer is empty, and
\* the byte write stores at index 0 after its arbitration is stored with Bus
\* State busy and over no pending received byte.
C18_IdleMeansRxEmpty ==
    /\ [](_busIdle => _serialRxBufferPos = 0)
    /\ [][ WriteFinish => (~_busIdle /\ _serialRxBufferPos = 0) ]_vars

\* A frame is in flight: write has enabled the transmit-data-ready interrupt
\* for it (172, 257) and the handler has not yet reset cursor and length (375).
InFlight == UDRIE1

\* C12: a call of write with length >= 1 made while a frame is in flight does
\* not change the transmit staging buffer, cursor or length, and the transmit
\* handler emits no byte while a write is still in its bus-idle wait.
C12_InFlightFrameUntouched ==
    /\ [][ (WriteCall /\ bufferLength' >= 1 /\ InFlight) => UNCHANGED txState ]_vars
    /\ [][ (handle_USART1_UDRE_vect /\ txOut' # txOut) => pc # "wait" ]_vars

\* The last call was a write that returned Ok.
Sent == op = "write" /\ ret = 0 /\ pc = "main"

\* The index of the first byte the handler sends: byte 0 was bit-banged by
\* write when there is no transceiver.
FirstSent == IF _interruptsAvailable THEN 0 ELSE 1

\* C13: after write returned Ok for n bytes, with no other write called since
\* the frame was staged, the transmit-data-ready events have emitted the
\* staged bytes from index s (0 with the transceiver, 1 without) up to the
\* cursor, in order and each once; the event that finds cursor = length
\* disables the interrupt and resets cursor and length, after which exactly
\* the bytes s..n-1 have been emitted; the cursor never exceeds the length.
C13_TransmitInOrder ==
    /\ [](~overlap => _serialTxBufferPos <= _serialTxLength)
    /\ [][ handle_USART1_UDRE_vect =>
            IF _serialTxBufferPos < _serialTxLength
            THEN /\ udr' = _serialTxBuffer[_serialTxBufferPos]
                 /\ _serialTxBufferPos' = _serialTxBufferPos + 1
                 /\ UDRIE1'
                 /\ UNCHANGED << _serialTxLength, _serialTxBuffer >>
            ELSE /\ ~UDRIE1'
                 /\ _serialTxBufferPos' = 0
                 /\ _serialTxLength' = 0
                 /\ udr' = udr ]_vars
    /\ []((Sent /\ ~overlap) =>
            LET n == bufferLength
                k == IF UDRIE1 THEN _serialTxBufferPos ELSE n
            IN  /\ UDRIE1 => _serialTxLength = n
                /\ ~UDRIE1 => (_serialTxBufferPos = 0 /\ _serialTxLength = 0)
                /\ FirstSent <= k
                /\ txOut = [j \in 1..(k - FirstSent) |->
                              ExpectedStaged(buffer, n, FirstSent + j - 1)])

C13_Witness ==
    /\ Sent
    /\ ~_interruptsAvailable
    /\ _calculateTxChecksum
    /\ bufferLength = BufferSize
    /\ ~UDRIE1
    /\ Len(txOut) = BufferSize - 1
    /\ txOut[BufferSize - 1] # buffer[BufferSize - 1]
    /\ _serialTxLength = 0

\* The foreground is inside write.
WriteExecuting == pc \in {"wait", "start", "branch", "bitbang", "finish"}

\* A byte is received: from another node, or the echo of this node's own.
ByteReceived == handle_USART1_RX_vect \/ RxEcho

\* C14: without the transceiver every received byte clears Bus State and
\* starts the idle countdown; its expiry stops the countdown, sets Bus State
\* idle and runs the assembler; the countdown runs whenever Bus State is busy
\* and no write is executing; so, unless bytes keep being received, Bus State
\* is idle again and again whenever no write is executing.
C14_IdleCountdown ==
    /\ [][ (ByteReceived /\ ~_interruptsAvailable) => (~_busIdle' /\ timer3') ]_vars
    /\ [][ handle_TIMER3_COMPA_vect =>
            /\ ~timer3'
            /\ _busIdle'
            /\ _serialRxBufferPos' = 0
            /\ _serialRxBufferPos > 0 =>
                  /\ ~_lastMessageRead'
                  /\ _messageLength' = IF Accepts THEN _serialRxBufferPos ELSE 0 ]_vars
    /\ []((~_interruptsAvailable /\ ~WriteExecuting /\ ~_busIdle) => timer3)
    /\ \/ _interruptsAvailable
       \/ []<>(_busIdle \/ WriteExecuting)
       \/ []<><<ByteReceived>>_vars

C14_Witness ==
    /\ ~_interruptsAvailable
    /\ Sent
    /\ _busIdle
    /\ ~timer3
    /\ _messageLength = MaxShortLen
    /\ available

\* C15: every idle event leaves Bus State idle and the receive cursor at 0,
\* and one that finds the staging buffer empty leaves the message slot, the
\* message length and the availability flag unchanged; an active-byte edge
\* changes nothing but Bus State, which it clears.
C15_IdleEventEffect ==
    /\ [][ IdleEvent => (_busIdle' /\ _serialRxBufferPos' = 0) ]_vars
    /\ [][ (IdleEvent /\ _serialRxBufferPos = 0) => UNCHANGED mailbox ]_vars
    /\ [][ activeByteInterruptHandler =>
            /\ ~_busIdle'
            /\ UNCHANGED << config, mailbox, rxState, txState, _lastSerialError,
                            periph, fg >> ]_vars

C15_Witness ==
    /\ _interruptsAvailable
    /\ Sent
    /\ _busIdle
    /\ _lastMessageRead
    /\ _messageLength = 0
    /\ _serialRxBufferPos = 0
    /\ Len(txOut) = MaxShortLen

\* C19: no index past the capacity of the transmit staging buffer is ever
\* stored to or loaded from, and cursor <= length <= 16 in every state.
C19_TxBufferInBounds ==
    /\ spill = 0
    /\ _serialTxBufferPos <= _serialTxLength
    /\ _serialTxLength <= BufferSize

====
